---- MODULE Spec2Model ----
(***************************************************************************)
(* State-machine model of the chat client: the persistent session id      *)
(* (usePersistentSessionId), the App component's state (chat, input,      *)
(* isSending), its handlers (handleSend, handleNewSession,                *)
(* handleResetBackend, the Clear button) and the HTTP wrapper httpJson.   *)
(*                                                                         *)
(* A render is taken to follow every state update before the next event   *)
(* is handled, so a handler's closure reads the current state; the values *)
(* an async handler captured before its await (sessionId, text) are kept  *)
(* in the record of its in-flight request.                                *)
(*                                                                         *)
(* The two non-ASCII markers of the source are written in ASCII:          *)
(* the cross mark as "[X]" and the check mark as "[OK]".                  *)
(***************************************************************************)
EXTENDS Integers, Sequences, FiniteSets, TLC

VARIABLES
    storage,    \* localStorage item 'session_id': <<>> when absent, <<v>> when set
    mounted,    \* TRUE once the App component has been mounted (first render done)
    sessionId,  \* useState value of usePersistentSessionId
    chat,       \* useState([]) : sequence of [user, assistant]
    input,      \* useState('') : the textarea's text
    isSending,  \* useState(false)
    chatReqs,   \* handleSend invocations suspended at `await postChat`
    resetReqs,  \* handleResetBackend invocations suspended at `await postReset`
    refused,    \* history: the latest handler call was a handleSend that
                \* returned at its guard (line 70)
    lastStep    \* history: what the latest step was, "found" (a page load that
                \* found a stored identifier), "created" (a page load that
                \* generated one), "renewed" (handleNewSession), "settled"
                \* (a chat request settled), or "other"

vars == <<storage, mounted, sessionId, chat, input, isSending, chatReqs, resetReqs,
          refused, lastStep>>

\* the state of the program, without the history variable
progVars == <<storage, mounted, sessionId, chat, input, isSending, chatReqs, resetReqs>>

----------------------------------------------------------------------------
(* Bounds of the model *)

\* The Conversation, counting the system Turns that in-flight resets will
\* append, never exceeds MaxTurns: submit and resetBackend are not taken beyond.
MaxTurns == 3

\* Math.random() * 16 | 0 is drawn from 0 .. MaxRand - 1 (the code: 0 .. 15).
MaxRand == 2

\* At most MaxResets reset requests are in flight at a time.
MaxResets == 2

----------------------------------------------------------------------------
(* Literals of the source *)

Pending == "..."
EmptyResponse == "(empty response)"
SystemUser == "(system)"
ResetCleared == "[OK] Session history cleared."
ErrorMarker == "[X] "
RequestFailed == "Request failed"

\* The template of generateUuid, 'xxxxxxxx-xxxx-4xxx-yxxx-xxxxxxxxxxxx',
\* shortened to a separator, the fixed version digit and the variant
\* character y; the x characters, each replaced by its own draw, are left out.
UuidTemplate == "-4y"

HexDigits == "0123456789abcdef"

----------------------------------------------------------------------------
(* Pure functions *)

\* Number.prototype.toString(16) of a value in 0 .. 15
ToHex(v) == SubSeq(HexDigits, v + 1, v + 1)

\* the replace callback: v = c === 'x' ? r : (r & 0x3) | 0x8
UuidNibble(c, r) == IF c = "x" THEN r ELSE (r % 4) + 8

IsXY(c) == c \in {"x", "y"}

RECURSIVE CountXY(_)
CountXY(t) ==
    IF t = "" THEN 0
    ELSE (IF IsXY(SubSeq(t, 1, 1)) THEN 1 ELSE 0) + CountXY(SubSeq(t, 2, Len(t)))

\* template.replace(/[xy]/g, callback), the callback's draws of Math.random
\* given in order as the sequence rs
RECURSIVE ReplaceXY(_, _)
ReplaceXY(t, rs) ==
    IF t = "" THEN ""
    ELSE LET c == SubSeq(t, 1, 1)
             rest == SubSeq(t, 2, Len(t))
         IN IF IsXY(c)
            THEN ToHex(UuidNibble(c, Head(rs))) \o ReplaceXY(rest, Tail(rs))
            ELSE c \o ReplaceXY(rest, rs)

generateUuid(rs) == ReplaceXY(UuidTemplate, rs)

\* the draws one call of generateUuid makes
RandomDraws == [1 .. CountXY(UuidTemplate) -> 0 .. MaxRand - 1]

IsSpace(c) == c \in {" ", "\t", "\n"}

RECURSIVE TrimStart(_)
TrimStart(s) ==
    IF s # "" /\ IsSpace(SubSeq(s, 1, 1)) THEN TrimStart(SubSeq(s, 2, Len(s))) ELSE s

RECURSIVE TrimEnd(_)
TrimEnd(s) ==
    IF s # "" /\ IsSpace(SubSeq(s, Len(s), Len(s)))
    THEN TrimEnd(SubSeq(s, 1, Len(s) - 1)) ELSE s

\* String.prototype.trim
Trim(s) == TrimEnd(TrimStart(s))

----------------------------------------------------------------------------
(* api/client.js : httpJson *)

None == <<>>
Some(v) == <<v>>

\* What `data` can be after line 9: a string, a JSON object of which only the
\* fields reply and error are read (each present or not), or JSON null.
JsString(s) == [type |-> "string", str |-> s, reply |-> None, error |-> None]
JsObject(r, e) == [type |-> "object", str |-> "", reply |-> r, error |-> e]
JsNull == [type |-> "null", str |-> "", reply |-> None, error |-> None]

\* One HTTP exchange as fetch presents it.
\*   rejects : the fetch promise rejects (network failure), with `message`
\*   ok      : response.ok (status 2xx)
\*   isJson  : the content-type header includes 'application/json'
\*   parses  : response.json() resolves; otherwise it rejects with `message`
\*   data    : the parsed JSON body, or the text body as a string
Exchange(rejects, ok, isJson, parses, data, message) ==
    [rejects |-> rejects, ok |-> ok, isJson |-> isJson, parses |-> parses,
     data |-> data, message |-> message]

Resolved(ok, isJson, data) == Exchange(FALSE, ok, isJson, TRUE, data, "")

\* the message of the error a failed fetch rejects with
NetworkError == "timeout"

\* the exchanges the remote service and the network produce in this model:
\* 2xx with a reply, with an empty reply, without one; non-2xx with an error
\* field; and a network failure
Exchanges ==
    {Resolved(TRUE, TRUE, JsObject(Some("Hello!"), None)),
     Resolved(TRUE, TRUE, JsObject(Some(""), None)),
     Resolved(TRUE, TRUE, JsObject(None, None)),
     Resolved(FALSE, TRUE, JsObject(None, Some("timeout"))),
     Exchange(TRUE, FALSE, FALSE, FALSE, JsNull, NetworkError)}

\* the message response.json() rejects with on a body that is not JSON
JsonSyntaxError == "Unexpected token"

\* A wider set of exchanges, for the behaviour of httpJson itself: every
\* combination of status, content type and body below, a body announced as
\* JSON that does not parse, and a network failure.
JsonBodies ==
    {JsObject(r, e) : r \in {None, Some("Hello!")},
                      e \in {None, Some("timeout"), Some("")}}
    \cup {JsNull}

TextBodies == {JsString("timeout"), JsString("")}

AllExchanges ==
    {Resolved(ok, TRUE, d) : ok \in BOOLEAN, d \in JsonBodies}
    \cup {Resolved(ok, FALSE, d) : ok \in BOOLEAN, d \in TextBodies}
    \cup {Exchange(FALSE, ok, TRUE, FALSE, JsNull, JsonSyntaxError) : ok \in BOOLEAN}
    \cup {Exchange(TRUE, FALSE, FALSE, FALSE, JsNull, NetworkError)}

Throw(message) == [threw |-> TRUE, data |-> JsNull, message |-> message]
Return(data) == [threw |-> FALSE, data |-> data, message |-> ""]

\* const message = typeof data === 'string' ? data : (data && data.error) || 'Request failed'
FailureMessage(data) ==
    IF data.type = "string" THEN data.str
    ELSE IF data.type = "object" /\ data.error # None /\ data.error[1] # ""
         THEN data.error[1]
         ELSE RequestFailed

httpJson(x) ==
    IF x.rejects THEN Throw(x.message)
    ELSE IF x.isJson /\ ~x.parses THEN Throw(x.message)
    ELSE IF ~x.ok THEN Throw(FailureMessage(x.data))
    ELSE Return(x.data)

\* postChat and postReset return what httpJson returns
postChat(x) == httpJson(x)
postReset(x) == httpJson(x)

----------------------------------------------------------------------------
(* usePersistentSessionId *)

\* variant: the generated identifier is returned but not written to storage
InitialSessionIdNotStored(store, rs) ==
    IF store # None /\ store[1] # ""
    THEN [id |-> store[1], store |-> store]
    ELSE [id |-> generateUuid(rs), store |-> store]

\* The useState initializer: returns the identifier and the storage after it.
InitialSessionId(store, rs) ==
    IF store # None /\ store[1] # ""
    THEN [id |-> store[1], store |-> store]
    ELSE [id |-> generateUuid(rs), store |-> Some(generateUuid(rs))]

\* variant: the item is written, the state is not set
updateStorageOnly(next) == storage' = Some(next) /\ UNCHANGED sessionId

\* variant: the state is set, the item is not written
updateStateOnly(next) == sessionId' = next /\ UNCHANGED storage

\* update(next): localStorage.setItem('session_id', next); setSessionId(next)
update(next) == storage' = Some(next) /\ sessionId' = next

renew(rs) == update(generateUuid(rs))

----------------------------------------------------------------------------
(* App *)

Turn(user, assistant) == [user |-> user, assistant |-> assistant]

\* what the user types into the textarea
TypedTexts == {"", " ", " Hi "}

\* the quick prompts (the first of the four in the source)
Prompts == {"How do I reset my password?"}

\* variant: the guard without the isSending test
SendBlockedOnEmptyOnly(text, sending) == text = ""

\* if (!text || isSending) return
SendBlocked(text, sending) == text = "" \/ sending

\* variant: on an empty array the Turn is pushed
ReplaceLastOrPush(prev, turn) ==
    IF prev = <<>> THEN <<turn>> ELSE [prev EXCEPT ![Len(prev)] = turn]

\* const copy = [...prev]; copy[copy.length - 1] = turn; return copy
\* On an empty array the assignment sets the property '-1', which is no
\* element: the copy still has length 0 and renders as the empty Conversation.
ReplaceLast(prev, turn) ==
    IF prev = <<>> THEN prev ELSE [prev EXCEPT ![Len(prev)] = turn]

\* variant: the fallback only for an absent reply (?? in place of ||)
ReplyOfAbsentOnly(res) ==
    IF res.type = "object" /\ res.reply # None THEN res.reply[1] ELSE EmptyResponse

\* res?.reply || '(empty response)'
ReplyOf(res) ==
    IF res.type = "object" /\ res.reply # None /\ res.reply[1] # ""
    THEN res.reply[1]
    ELSE EmptyResponse

\* the Turn handleSend writes when postChat has settled with result r
SettledTurn(text, r) ==
    IF r.threw THEN Turn(text, ErrorMarker \o r.message)
    ELSE Turn(text, ReplyOf(r.data))

\* variant: setIsSending(false) at the end of the try block, not in a finally
SendingAfterSettleInTry(threw) == threw

\* finally { setIsSending(false) } : the flag after a settlement that threw or not
SendingAfterSettle(threw) == FALSE

\* the Turn handleResetBackend appends when postReset has settled with result r
ResetTurn(r) ==
    IF r.threw THEN Turn(SystemUser, ErrorMarker \o r.message)
    ELSE Turn(SystemUser, ResetCleared)

\* variant: the system Turn written over the last Turn, as handleSend does
AppendTurnOverLast(prev, turn) == ReplaceLast(prev, turn)

\* setChat((prev) => [...prev, turn])
AppendTurn(prev, turn) == Append(prev, turn)

\* the model's bound on the Conversation (see MaxTurns)
RoomForTurn == Len(chat) + Len(resetReqs) < MaxTurns

\* the model's bound on the reset requests in flight (see MaxResets)
RoomForReset == Len(resetReqs) < MaxResets

\* removal of the i-th element of a sequence
RemoveAt(s, i) == SubSeq(s, 1, i - 1) \o SubSeq(s, i + 1, Len(s))

\* Page load: the component mounts and the useState initializers run.
Mount ==
    /\ ~mounted
    /\ refused' = FALSE
    /\ \E rs \in RandomDraws :
         LET r == InitialSessionId(storage, rs)
         IN  /\ sessionId' = r.id /\ storage' = r.store
             /\ lastStep' = IF r.store = storage THEN "found" ELSE "created"
    /\ mounted' = TRUE
    /\ chat' = <<>>
    /\ input' = ""
    /\ isSending' = FALSE
    /\ UNCHANGED <<chatReqs, resetReqs>>

\* Page reload or close: the component state and the suspended handlers are
\* lost, localStorage is kept.
Unload ==
    /\ mounted
    /\ lastStep' = "other"
    /\ refused' = FALSE
    /\ mounted' = FALSE
    /\ sessionId' = ""
    /\ chat' = <<>>
    /\ input' = ""
    /\ isSending' = FALSE
    /\ chatReqs' = <<>>
    /\ resetReqs' = <<>>
    /\ UNCHANGED storage

\* onChange={(e) => setInput(e.target.value)}
onChange(v) ==
    /\ mounted
    /\ lastStep' = "other"
    /\ refused' = FALSE
    /\ input' = v
    /\ UNCHANGED <<storage, mounted, sessionId, chat, isSending, chatReqs, resetReqs>>

handleQuickPrompt(p) ==
    /\ mounted
    /\ lastStep' = "other"
    /\ refused' = FALSE
    /\ input' = p
    /\ UNCHANGED <<storage, mounted, sessionId, chat, isSending, chatReqs, resetReqs>>

\* handleSend up to `await postChat`.  The request record keeps what the
\* suspended handler holds (sessionId, text) and a history field the code
\* does not have: slot, the position of the Turn this call appended (0 once
\* the Conversation was cleared).
handleSend ==
    /\ mounted
    /\ lastStep' = "other"
    /\ LET text == Trim(input)
       IN IF SendBlocked(text, isSending)
          THEN refused' = TRUE /\ UNCHANGED progVars
          ELSE /\ RoomForTurn
               /\ refused' = FALSE
               /\ isSending' = TRUE
               /\ chat' = Append(chat, Turn(text, Pending))
               /\ input' = ""
               /\ chatReqs' = Append(chatReqs,
                      [sessionId |-> sessionId, text |-> text,
                       slot |-> Len(chat) + 1])
               /\ UNCHANGED <<storage, mounted, sessionId, resetReqs>>

\* the rest of handleSend, when the i-th in-flight chat request settles with
\* exchange x
handleSendSettle(i, x) ==
    /\ mounted
    /\ lastStep' = "settled"
    /\ refused' = FALSE
    /\ i \in 1 .. Len(chatReqs)
    /\ LET req == chatReqs[i]
           r == postChat(x)
       IN /\ chat' = ReplaceLast(chat, SettledTurn(req.text, r))
          /\ isSending' = SendingAfterSettle(r.threw)
    /\ chatReqs' = RemoveAt(chatReqs, i)
    /\ UNCHANGED <<storage, mounted, sessionId, input, resetReqs>>

\* history bookkeeping of the in-flight chat requests
Cleared(reqs) == [i \in 1 .. Len(reqs) |-> [reqs[i] EXCEPT !.slot = 0]]

\* variant: a new session also puts the controller back to Idle
handleNewSessionToIdle ==
    /\ mounted
    /\ lastStep' = "renewed"
    /\ refused' = FALSE
    /\ \E rs \in RandomDraws : renew(rs)
    /\ chat' = <<>>
    /\ chatReqs' = Cleared(chatReqs)
    /\ isSending' = FALSE
    /\ UNCHANGED <<mounted, input, resetReqs>>

handleNewSession ==
    /\ mounted
    /\ lastStep' = "renewed"
    /\ refused' = FALSE
    /\ \E rs \in RandomDraws : renew(rs)
    /\ chat' = <<>>
    /\ chatReqs' = Cleared(chatReqs)
    /\ UNCHANGED <<mounted, input, isSending, resetReqs>>

\* variant: the Clear button also puts the controller back to Idle
clearLocalToIdle ==
    /\ mounted
    /\ lastStep' = "other"
    /\ refused' = FALSE
    /\ chat' = <<>>
    /\ chatReqs' = Cleared(chatReqs)
    /\ isSending' = FALSE
    /\ UNCHANGED <<storage, mounted, sessionId, input, resetReqs>>

\* variant: the Clear button also renews the session identifier
clearLocalRenews ==
    /\ mounted
    /\ lastStep' = "other"
    /\ refused' = FALSE
    /\ \E rs \in RandomDraws : renew(rs)
    /\ chat' = <<>>
    /\ chatReqs' = Cleared(chatReqs)
    /\ UNCHANGED <<mounted, input, isSending, resetReqs>>

\* the Clear button: onClick={() => setChat([])}
clearLocal ==
    /\ mounted
    /\ lastStep' = "other"
    /\ refused' = FALSE
    /\ chat' = <<>>
    /\ chatReqs' = Cleared(chatReqs)
    /\ UNCHANGED <<storage, mounted, sessionId, input, isSending, resetReqs>>

\* handleResetBackend up to `await postReset`
handleResetBackend ==
    /\ mounted
    /\ lastStep' = "other"
    /\ refused' = FALSE
    /\ RoomForTurn
    /\ RoomForReset
    /\ resetReqs' = Append(resetReqs, [sessionId |-> sessionId])
    /\ UNCHANGED <<storage, mounted, sessionId, chat, input, isSending, chatReqs>>

\* the rest of handleResetBackend, when the i-th in-flight reset settles
handleResetBackendSettle(i, x) ==
    /\ mounted
    /\ lastStep' = "other"
    /\ refused' = FALSE
    /\ i \in 1 .. Len(resetReqs)
    /\ chat' = AppendTurn(chat, ResetTurn(postReset(x)))
    /\ resetReqs' = RemoveAt(resetReqs, i)
    /\ UNCHANGED <<storage, mounted, sessionId, input, isSending, chatReqs>>

----------------------------------------------------------------------------

\* localStorage before the first load: no item, or an empty one
Init ==
    /\ storage \in {None, Some("")}
    /\ mounted = FALSE
    /\ sessionId = ""
    /\ chat = <<>>
    /\ input = ""
    /\ isSending = FALSE
    /\ chatReqs = <<>>
    /\ resetReqs = <<>>
    /\ refused = FALSE
    /\ lastStep = "other"

Next ==
    \/ Mount
    \/ Unload
    \/ \E v \in TypedTexts : onChange(v)
    \/ \E p \in Prompts : handleQuickPrompt(p)
    \/ handleSend
    \/ \E i \in 1 .. Len(chatReqs), x \in Exchanges : handleSendSettle(i, x)
    \/ handleNewSession
    \/ clearLocal
    \/ handleResetBackend
    \/ \E i \in 1 .. Len(resetReqs), x \in Exchanges : handleResetBackendSettle(i, x)

Spec == Init /\ [][Next]_vars

\* a chat request in flight settles
ChatSettles == \E i \in 1 .. Len(chatReqs), x \in Exchanges : handleSendSettle(i, x)

\* the behaviours in which no chat request hangs: postChat eventually
\* resolves or rejects
LiveSpec == Spec /\ WF_vars(ChatSettles)

\* The same program with the remote service answering from the wider set
\* of exchanges.
HttpNext ==
    \/ Mount
    \/ Unload
    \/ \E v \in TypedTexts : onChange(v)
    \/ \E p \in Prompts : handleQuickPrompt(p)
    \/ handleSend
    \/ \E i \in 1 .. Len(chatReqs), x \in AllExchanges : handleSendSettle(i, x)
    \/ handleNewSession
    \/ clearLocal
    \/ handleResetBackend
    \/ \E i \in 1 .. Len(resetReqs), x \in AllExchanges : handleResetBackendSettle(i, x)

HttpSpec == Init /\ [][HttpNext]_vars

----------------------------------------------------------------------------
(* Vocabulary of the properties *)

\* the text has no character other than whitespace (its trim is empty)
WhitespaceOnly(s) == \A k \in 1 .. Len(s) : SubSeq(s, k, k) \in {" ", "\t", "\n"}

\* the positions of the Conversation whose Turn shows the pending placeholder
PendingTurns == {k \in 1 .. Len(chat) : chat[k].assistant = "..."}

\* this step is an accepted submit: one more chat request is in flight
SubmitAccepted == Len(chatReqs') = Len(chatReqs) + 1

\* this step settles the chat request in flight
ChatSettled == mounted' /\ Len(chatReqs) = 1 /\ chatReqs' = <<>>

\* this step completes a reset request in flight
ResetSettled == mounted' /\ Len(resetReqs') < Len(resetReqs)

\* the exchange is a success for the caller of httpJson
Succeeds(x) == ~x.rejects /\ x.ok /\ (x.isJson => x.parses)

----------------------------------------------------------------------------
\* C1 (as stated; refuted): in every reachable state the Conversation holds
\* at most one Turn whose assistantText is the pending placeholder '...'.
C1_AtMostOnePending == Cardinality(PendingTurns) <= 1

\* C2 (as stated; refuted): an accepted submit appends exactly one Turn, the
\* placeholder Turn for the trimmed text; and the settlement of its chat
\* request changes the Turn this submit appended and no other Turn, also
\* when a reset completion, clearLocal or startNewSession came in between.
C2_SettleChangesOwnTurn ==
    [][ /\ SubmitAccepted =>
              /\ Len(chat') = Len(chat) + 1
              /\ SubSeq(chat', 1, Len(chat)) = chat
              /\ chat'[Len(chat')].assistant = "..."
        /\ ChatSettled =>
              LET slot == chatReqs[1].slot
              IN /\ Len(chat') = Len(chat)
                 /\ \A k \in 1 .. Len(chat) : k # slot => chat'[k] = chat[k]
                 /\ slot # 0 => chat'[slot].assistant # chat[slot].assistant
      ]_vars

\* C3: a handleSend call made while the trimmed input is empty or a prior
\* submit's chat request has not settled changes nothing: not the
\* Conversation, the requests in flight, the input, the Sending flag, nor
\* any other state of the program.
C3_BlockedSubmitIsNoOp ==
    [][ (handleSend /\ (WhitespaceOnly(input) \/ chatReqs # <<>>))
            => (refused' /\ UNCHANGED progVars) ]_vars

\* a submit was just refused because the prior chat request is in flight,
\* with a sendable text in the input
C3_Witness ==
    refused /\ chatReqs # <<>> /\ ~WhitespaceOnly(input)

\* C4: in no reachable state are two chat requests in flight.
C4_SingleChatOutstanding == Len(chatReqs) <= 1

\* a chat request is in flight together with a reset request, a new
\* session was started meanwhile, and a further submit has been tried
C4_Witness ==
    /\ Len(chatReqs) = 1
    /\ resetReqs # <<>>
    /\ chatReqs[1].sessionId # sessionId
    /\ refused

\* the assistantText a successful exchange is to produce
ExpectedReply(x) ==
    IF x.data.type = "object" /\ x.data.reply # <<>> /\ x.data.reply[1] # ""
    THEN x.data.reply[1]
    ELSE "(empty response)"

\* the identifiers generateUuid can return
Uuids == {generateUuid(rs) : rs \in RandomDraws}

\* the requests as sent, without the history field
Sent(reqs) == [i \in 1 .. Len(reqs) |-> [sessionId |-> reqs[i].sessionId, text |-> reqs[i].text]]

\* C5: when the chat request settles successfully and the Turn its submit
\* appended is still the last one (no clear, new session or reset completion
\* since the submit; in particular when no operation came in between), that
\* Turn, until then {text, '...'}, becomes {text, reply}, or
\* {text, '(empty response)'} when the reply is empty or absent, nothing else
\* of the Conversation changes, and the controller is back in Idle.
C5_SuccessSettles ==
    [][ ChatSettled => \A x \in Exchanges :
          ( /\ Len(chatReqs) = 1
            /\ chatReqs[1].slot # 0
            /\ chatReqs[1].slot = Len(chat)
            /\ Succeeds(x)
            /\ handleSendSettle(1, x) )
          => LET req == chatReqs[1]
             IN /\ chat[req.slot] = [user |-> req.text, assistant |-> "..."]
                /\ chat' = [chat EXCEPT ![req.slot] =
                               [user |-> req.text, assistant |-> ExpectedReply(x)]]
                /\ ~isSending'
                /\ chatReqs' = <<>>
      ]_vars

\* a submit of "Hi" settled with an empty or absent reply: the fallback shows
C5_Witness ==
    /\ mounted /\ ~isSending /\ chatReqs = <<>>
    /\ chat = <<[user |-> "Hi", assistant |-> "(empty response)"]>>

\* C6 (as stated; refuted): when the chat request fails with message m, the
\* Turn its submit appended gets the error marker followed by m, no other
\* Turn, the SessionId and the stored SessionId are not changed, and the
\* controller is back in Idle with the component alive, so that every
\* operation remains available.
C6_FailureRendered ==
    [][ ChatSettled => \A x \in Exchanges :
          ( /\ Len(chatReqs) = 1
            /\ ~Succeeds(x)
            /\ handleSendSettle(1, x) )
          => LET req == chatReqs[1]
                 m == postChat(x).message
             IN /\ Len(chat') = Len(chat)
                /\ req.slot # 0 =>
                       chat'[req.slot] = [user |-> req.text, assistant |-> "[X] " \o m]
                /\ \A k \in 1 .. Len(chat) : k # req.slot => chat'[k] = chat[k]
                /\ sessionId' = sessionId
                /\ storage' = storage
                /\ mounted' /\ ~isSending'
      ]_vars

\* C7: an accepted submit takes the controller from Idle to Sending, and,
\* when chat requests eventually settle, the controller always returns to
\* Idle, whatever else is interleaved.
C7_SendingReturnsToIdle ==
    /\ [][SubmitAccepted => (~isSending /\ isSending')]_vars
    /\ (isSending ~> ~isSending)

\* Sending, with the Conversation cleared and a reset in flight meanwhile
C7_Witness ==
    isSending /\ chat = <<>> /\ resetReqs # <<>> /\ Len(chatReqs) = 1

\* C8: while a chat request is in flight the controller is in Sending, and
\* every step that does not settle that request (clearLocal, startNewSession,
\* resetBackend, a reset completion, typing) leaves it in Sending.
C8_StaysSendingUntilSettled ==
    [][ (chatReqs # <<>> /\ Len(chatReqs') = Len(chatReqs))
            => (isSending /\ isSending') ]_vars

\* still Sending after a new session was started with the request in flight
C8_Witness ==
    /\ isSending /\ Len(chatReqs) = 1
    /\ chatReqs[1].sessionId # sessionId
    /\ chatReqs[1].slot = 0
    /\ chat = <<>>

\* C9: the completion of a reset request appends exactly one system Turn at
\* the end of the Conversation, the confirmation on success and the error
\* marker followed by the failure's message otherwise; the Turns that were
\* there stay as they were, in order; the SessionId, the stored SessionId,
\* the Sending flag and the chat requests in flight do not change.
C9_ResetAppendsSystemTurn ==
    [][ ResetSettled => \A i \in 1 .. Len(resetReqs), x \in Exchanges :
          handleResetBackendSettle(i, x)
          => /\ chat' = Append(chat,
                   [user |-> "(system)",
                    assistant |-> IF Succeeds(x)
                                  THEN "[OK] Session history cleared."
                                  ELSE "[X] " \o postReset(x).message])
             /\ sessionId' = sessionId
             /\ storage' = storage
             /\ isSending' = isSending
             /\ chatReqs' = chatReqs
             /\ Len(resetReqs') = Len(resetReqs) - 1
      ]_vars

\* a reset completed while a chat request was in flight: its confirmation
\* follows the pending Turn
C9_Witness ==
    /\ isSending
    /\ chat = <<[user |-> "Hi", assistant |-> "..."],
                [user |-> "(system)", assistant |-> "[OK] Session history cleared."]>>

\* C10: startNewSession makes the Conversation empty, sets the SessionId to
\* a newly generated identifier in memory and in storage, and issues no
\* request: the chat and reset requests in flight are the same before and
\* after.
C10_NewSession ==
    [][ handleNewSession
          => /\ chat' = <<>>
             /\ sessionId' \in Uuids
             /\ storage' = <<sessionId'>>
             /\ Sent(chatReqs') = Sent(chatReqs)
             /\ resetReqs' = resetReqs
      ]_vars

\* a new session was started after a reset was requested under the old one
C10_Witness ==
    /\ mounted /\ chat = <<>> /\ chatReqs = <<>>
    /\ resetReqs # <<>>
    /\ resetReqs[1].sessionId # sessionId
    /\ storage = <<sessionId>>

\* the storage item holds an identifier (getItem returns a non-empty string)
Created(store) == store # <<>> /\ store[1] # ""

\* C11: clearLocal makes the Conversation empty and changes nothing else:
\* not the SessionId in memory or in storage, the chat and reset requests in
\* flight (none is issued, none is dropped), the Sending flag, or the input.
C11_ClearLocal ==
    [][ clearLocal
          => /\ chat' = <<>>
             /\ sessionId' = sessionId
             /\ storage' = storage
             /\ Sent(chatReqs') = Sent(chatReqs)
             /\ resetReqs' = resetReqs
             /\ isSending' = isSending
             /\ input' = input
      ]_vars

\* the Conversation was cleared with a chat request and a reset request of
\* the current session in flight: still Sending, both still in flight
C11_Witness ==
    /\ lastStep = "other" /\ ~refused
    /\ chat = <<>>
    /\ isSending
    /\ Len(chatReqs) = 1 /\ chatReqs[1].slot = 0
    /\ chatReqs[1].sessionId = sessionId
    /\ resetReqs # <<>>
    /\ storage = <<sessionId>>

\* C12: the stored SessionId changes only in a startNewSession step or in a
\* page load that finds none; the SessionId of a mounted component changes
\* only in a startNewSession step (so submit, chat settlement, resetBackend,
\* reset completion and clearLocal leave both unchanged); and once the
\* item holds an identifier it holds one ever after.
C12_SessionIdChangesOnlyByRenew ==
    [][ /\ storage' # storage => (handleNewSession \/ (Mount /\ ~Created(storage)))
        /\ (mounted /\ mounted' /\ sessionId' # sessionId) => handleNewSession
        /\ Created(storage) => Created(storage')
      ]_vars

\* a submit has settled and a reset has completed in this session, another
\* reset issued under it is in flight, and the identifier is still the same
C12_Witness ==
    /\ mounted /\ Created(storage) /\ storage = <<sessionId>>
    /\ resetReqs # <<>> /\ resetReqs[1].sessionId = sessionId
    /\ \E k \in 1 .. Len(chat) : chat[k].assistant = "Hello!"
    /\ \E k \in 1 .. Len(chat) : chat[k].user = "(system)"

\* C13: a page load (getOrCreate) that finds an identifier in storage returns
\* it and writes nothing; one that finds none returns a generated identifier
\* and stores it; and in both cases a further call on the storage it leaves
\* returns the identical identifier and leaves the storage as it is.
C13_GetOrCreateIdempotent ==
    [][ Mount
          => /\ IF Created(storage)
                THEN sessionId' = storage[1] /\ storage' = storage
                ELSE sessionId' \in Uuids /\ storage' = <<sessionId'>>
             /\ \A rs \in RandomDraws :
                   InitialSessionId(storage', rs) = [id |-> sessionId', store |-> storage']
      ]_vars

\* the page was loaded again and found the identifier stored before
C13_Witness ==
    mounted /\ lastStep = "found" /\ storage = <<sessionId>> /\ sessionId \in Uuids

\* C14 (as stated; refuted): renew returns an identifier different from the
\* one held before, stores it, and a getOrCreate after it returns the new
\* identifier and not the old one.
C14_RenewDiffers ==
    [][ handleNewSession
          => /\ sessionId' # sessionId
             /\ storage' = <<sessionId'>>
             /\ \A rs \in RandomDraws :
                   /\ InitialSessionId(storage', rs).id = sessionId'
                   /\ InitialSessionId(storage', rs).id # sessionId
      ]_vars

\* C14 (amended): renew returns an identifier that generateUuid has newly
\* drawn, which is the one held before when the draw repeats it; it stores
\* that identifier, and a getOrCreate after it returns it and leaves the
\* storage as it is.
C14_RenewStoresGenerated ==
    [][ handleNewSession
          => /\ \E rs \in RandomDraws : sessionId' = generateUuid(rs)
             /\ storage' = <<sessionId'>>
             /\ \A rs \in RandomDraws :
                   InitialSessionId(storage', rs) = [id |-> sessionId', store |-> storage']
      ]_vars

\* a session was just renewed while a reset issued under another identifier
\* is in flight: the new identifier is the one in storage
C14_Witness ==
    /\ lastStep = "renewed"
    /\ resetReqs # <<>>
    /\ resetReqs[1].sessionId # sessionId
    /\ storage = <<sessionId>>

\* the response arrived and its body was read: as JSON that parses, or as text
BodyRead(x) == ~x.rejects /\ (x.isJson => x.parses)

\* the message C15 gives a non-2xx response: the error field of a JSON body
\* that has one, else the text body, else the fallback phrase
ClaimedMessage(x) ==
    IF x.isJson /\ x.data.type = "object" /\ x.data.error # <<>> /\ x.data.error[1] # ""
    THEN x.data.error[1]
    ELSE IF ~x.isJson /\ x.data.str # ""
         THEN x.data.str
         ELSE "Request failed"

\* C15 (as stated; refuted): for every response whose body is read, httpJson
\* returns the body and throws nothing when the status is 2xx, and otherwise
\* throws a failure whose message is the JSON body's error field if it has
\* one, else the text body, else 'Request failed', and so is never empty.
C15_HttpJsonContract ==
    [][ (ChatSettled \/ ResetSettled) =>
          \A x \in AllExchanges :
            ( /\ BodyRead(x)
              /\ \/ handleSendSettle(1, x)
                 \/ \E i \in 1 .. Len(resetReqs) : handleResetBackendSettle(i, x) )
            => LET r == httpJson(x)
               IN IF x.ok
                  THEN ~r.threw /\ r.data = x.data
                  ELSE r.threw /\ r.message = ClaimedMessage(x) /\ r.message # ""
      ]_vars

\* C16: in every reachable state the Sending flag is TRUE exactly when one
\* chat request is in flight (and there is never more than one): the flag is
\* set by the step that issues the request and cleared by the step that
\* applies its settlement, whether it succeeded or failed.
C16_SendingIffInFlight ==
    /\ isSending <=> (Len(chatReqs) = 1)
    /\ ~isSending <=> (chatReqs = <<>>)

\* a chat request has just settled with a failure: Idle, nothing in flight
C16_Witness ==
    /\ lastStep = "settled" /\ ~isSending /\ chatReqs = <<>>
    /\ \E k \in 1 .. Len(chat) :
          chat[k] = [user |-> "Hi", assistant |-> "[X] timeout"]

\* C17: in every reachable state of the mounted component the in-memory
\* SessionId is the value of the storage item.
C17_MemoryEqualsStorage == mounted => storage = <<sessionId>>

\* two resets are in flight, issued under different identifiers, and the
\* session has been renewed back to the first one's identifier
C17_Witness ==
    /\ mounted /\ Len(resetReqs) = 2
    /\ resetReqs[1].sessionId # resetReqs[2].sessionId
    /\ resetReqs[1].sessionId = sessionId
    /\ storage = <<sessionId>>

\* C18: while the component is alive, the settlement of a chat request
\* leaves the number of Turns as it is (an empty Conversation stays empty),
\* and the number changes only by +1 in an accepted submit, by +1 in a reset
\* completion, and to 0 in clearLocal or startNewSession.
C18_LengthChanges ==
    [][ mounted' =>
          /\ ChatSettled => Len(chat') = Len(chat)
          /\ Len(chat') # Len(chat) =>
                \/ SubmitAccepted /\ Len(chat') = Len(chat) + 1
                \/ ResetSettled /\ Len(chat') = Len(chat) + 1
                \/ (clearLocal \/ handleNewSession) /\ Len(chat') = 0
      ]_vars

\* a chat request has just settled on a Conversation that was cleared while
\* it was in flight: the Conversation is empty
C18_Witness ==
    mounted /\ lastStep = "settled" /\ chat = <<>> /\ ~isSending

\* C19 (as stated; refuted): a completion that changes the Conversation is
\* the completion of a request issued under the current SessionId; the
\* outcome of a chat or reset request issued before a renewal never shows.
C19_NoStaleOutcome ==
    [][ /\ (ChatSettled /\ chat' # chat) => chatReqs[1].sessionId = sessionId
        /\ ResetSettled =>
              \A i \in 1 .. Len(resetReqs), x \in Exchanges :
                 handleResetBackendSettle(i, x) => resetReqs[i].sessionId = sessionId
      ]_vars

====
